---- MODULE Spec2Model ----
(***************************************************************************)
(* The POST /api/convert route handler of the UBC schedule converter       *)
(* (src/unnamed/part_000), run by several requests at once on one Node     *)
(* event loop: every `await` of the handler is a point where another       *)
(* request's step may run.  The Python converter the handler shells out to *)
(* is an external process: the handler sees only whether the process       *)
(* failed and what it printed.                                             *)
(*                                                                         *)
(* Strings the code inspects are sequences of pieces, so that endsWith,    *)
(* trim, startsWith and JSON.parse are computed, not assumed:              *)
(*   - a file name is a sequence of characters;                            *)
(*   - the converter's stdout is a sequence of tokens ("ws" is white       *)
(*     space, "{" "error" m "}" a JSON object with an error member);       *)
(*   - an exception message is the set of the needles of lines 88-94 that  *)
(*     occur in it.                                                        *)
(***************************************************************************)
EXTENDS Integers, Sequences, FiniteSets, TLC

\* ------------------------------------------------------------ bounds

\* Number of POST requests the server receives (they may overlap).
NumReqs == 2
\* Largest number of events in a calendar the converter prints.
MaxEvents == 1

Reqs == 1..NumReqs

\* ------------------------------------------------------------ strings

\* String.prototype.endsWith
EndsWith(s, suffix) ==
    /\ Len(s) >= Len(suffix)
    /\ SubSeq(s, Len(s) - Len(suffix) + 1, Len(s)) = suffix

Xlsx == <<".", "x", "l", "s", "x">>
Xls == <<".", "x", "l", "s">>

\* A bug the extension check could have: the suffix's dot is not required.
ValidExtensionNoDot(name) ==
    EndsWith(name, Tail(Xlsx)) \/ EndsWith(name, Tail(Xls))

\* The negation of line 24's condition.
ValidExtension(name) == EndsWith(name, Xlsx) \/ EndsWith(name, Xls)

\* path.join(dir, name), for a name without separators
Join(dir, name) == dir \o <<"/">> \o name

\* join(os.tmpdir(), 'uploads')
UploadDir == <<"/tmp", "/", "uploads">>

\* join(process.cwd(), 'app', 'api', 'convert', 'index.py')
PythonScript == <<"app", "/", "api", "/", "convert", "/", "index.py">>

\* ------------------------------------------------------------ inputs

\* File names a client may send: two Excel names, and names line 24 rejects
\* (another extension, and the letters of the extension without the dot).
FileNames ==
    { <<"a", ".", "x", "l", "s", "x">>,
      <<"b", ".", "x", "l", "s">>,
      <<"a", ".", "c", "s", "v">>,
      <<"x", "l", "s">> }

\* The bytes of an upload.
Contents == {"bytes1", "bytes2"}

\* formData.get('file'): null, or a File with a name and bytes.
NoFile == [present |-> FALSE, name |-> << >>, bytes |-> "none"]
Files == [present : {TRUE}, name : FileNames, bytes : Contents]

\* formData.get('skip_breaks'): the field's value, or absent.
SkipValues == {"absent", "0", "1"}

\* A request: a body request.formData() cannot parse, or a form.
Requests ==
    {[body |-> "malformed", file |-> NoFile, skip |-> "absent"]}
        \cup [body : {"form"}, file : {NoFile} \cup Files, skip : SkipValues]

NoRequest == [body |-> "none", file |-> NoFile, skip |-> "absent"]

\* Texts the needles of lines 88-94 are searched in.
Needles == {"No module named", "FileNotFoundError", "Permission denied", "ENOENT"}

\* Messages of the exceptions the awaited calls throw: the needles each holds.
FormDataErrors == {{}}
FsErrors == {{"ENOENT"}, {}}
ExecErrors ==
    { {}, {"No module named"}, {"FileNotFoundError", "ENOENT"},
      {"Permission denied"} }

\* What the converter may put in the error member of its JSON payload: a
\* message of its own, or the text of an exception it caught.
ConverterErrors ==
    { "No events found in the file",
      "[Errno 2] No such file or directory: '/tmp/uploads/a.xlsx'" }

RECURSIVE Events(_)
Events(n) == IF n = 0 THEN << >> ELSE <<"BEGIN:VEVENT">> \o Events(n - 1)

\* A calendar of n events, as print() leaves it on stdout.
CalendarText(n) == <<"BEGIN:VCALENDAR">> \o Events(n) \o <<"END:VCALENDAR", "ws">>

\* An error payload, as print(json.dumps({...})) leaves it on stdout.
PayloadText(m) == <<"{", "error", m, "}", "ws">>

\* What a converter process that exits with 0 may have printed.
Stdouts ==
    { CalendarText(n) : n \in 0..MaxEvents }
        \cup { PayloadText(m) : m \in ConverterErrors \cup {""} }
        \cup { <<"ws">> \o PayloadText(m) : m \in ConverterErrors }
        \cup { << >>, <<"{", "}">>, <<"{", "txt">> }
        \cup { <<"txt">> \o PayloadText(m) : m \in ConverterErrors }

\* ------------------------------------------------------------ state

VARIABLES
    pc,         \* pc[r]: the await request r's handler is suspended at
    input,      \* input[r]: the request r carries
    buffer,     \* buffer[r]: Buffer.from(await file.arrayBuffer())
    dirExists,  \* whether <tmpdir>/uploads exists
    fs,         \* fs[p]: the bytes of the file at path p, or "absent"
    execs,      \* execs[r]: the converter processes r started, in order
    effects,    \* effects[r]: the side effects r's handler performed
    thrown,     \* thrown[r]: the exceptions that reached the outer catch
    responses,  \* responses[r]: the responses r's handler returned
    job,        \* the Recurrence Expander's input: a meeting record and the exclusion data
    cursor,     \* the date the expander looks at next
    occurrences, \* the dates the expander has emitted, in order
    page,       \* which version of the upload page is open: "v1", "v2" ("none": no page)
    file,       \* v1: the file state ("none": null or undefined)
    skipBreaks, \* v2: the skipBreaks state
    isDragOver, \* v2: the isDragOver state
    isConverting, \* the isConverting state
    pageError,  \* the error state of the page ("": null)
    success,    \* v1: the success state; v2: result?.success
    attempts,   \* attempts[a]: the a-th call of /api/convert the page made
    started,    \* the number of calls of /api/convert the page has made
    errorBy,    \* the attempt that set error (0: none did)
    successBy   \* the attempt that set success or result (0: none did)

hvars == <<pc, input, buffer, dirExists, fs, execs, effects, thrown, responses>>
xvars == <<job, cursor, occurrences>>
pvars == <<page, file, skipBreaks, isDragOver, isConverting, pageError, success,
           attempts, started, errorBy, successBy>>
vars == <<hvars, xvars, pvars>>

Paths == { Join(UploadDir, n) : n \in FileNames }

\* const filePath = join(uploadDir, file.name)
FilePath(r) == Join(UploadDir, input[r].file.name)

\* ------------------------------------------------------------ responses

NoBody == [src |-> "none", text |-> << >>]

\* A bug a JSON response could have: the init object with the status is left
\* out, and NextResponse.json answers 200.
JsonResponseDefaultStatus(error, status) ==
    [status |-> 200, contentType |-> "application/json", disposition |-> "",
     error |-> error, body |-> [src |-> "none", text |-> << >>]]

\* NextResponse.json({ error }, { status })
JsonResponse(error, status) ==
    [status |-> status, contentType |-> "application/json", disposition |-> "",
     error |-> error, body |-> NoBody]

\* new NextResponse(stdout, { headers }) of lines 75-80; the status defaults to 200
CalendarResponse(stdout) ==
    [status |-> 200, contentType |-> "text/calendar",
     disposition |-> "attachment; filename=\"courses.ics\"",
     error |-> "", body |-> stdout]

\* The message the outer catch picks for an exception (lines 85-96).
ErrorMessage(msg) ==
    IF "No module named" \in msg
    THEN "Server configuration error. Please try again later."
    ELSE IF "FileNotFoundError" \in msg
    THEN "Invalid file format. Please ensure you uploaded a valid UBC course schedule Excel file."
    ELSE IF "Permission denied" \in msg
    THEN "File access error. Please try again."
    ELSE IF "ENOENT" \in msg
    THEN "File system error. Please try again."
    ELSE "An unknown error occurred on the server."

\* ------------------------------------------------------------ stdout

RECURSIVE TrimStart(_)
TrimStart(s) ==
    IF s # << >> /\ Head(s) = "ws" THEN TrimStart(Tail(s)) ELSE s

RECURSIVE TrimEnd(_)
TrimEnd(s) ==
    IF s # << >> /\ s[Len(s)] = "ws" THEN TrimEnd(SubSeq(s, 1, Len(s) - 1)) ELSE s

\* String.prototype.trim
Trim(s) == TrimEnd(TrimStart(s))

\* A bug the sniffing could have: the text is not trimmed before the test.
LooksLikeJsonUntrimmed(text) == text # << >> /\ Head(text) = "{"

\* stdout.trim().startsWith('{')
LooksLikeJson(text) == Trim(text) # << >> /\ Head(Trim(text)) = "{"

\* JSON.parse(stdout): the value, or that it threw.  White space around the
\* value is allowed.  error is the object's error member ("" when it has none).
JsonParse(text) ==
    LET t == Trim(text) IN
    IF t = <<"{", "}">>
    THEN [ok |-> TRUE, error |-> ""]
    ELSE IF Len(t) = 4 /\ t[1] = "{" /\ t[2] = "error" /\ t[4] = "}"
    THEN [ok |-> TRUE, error |-> t[3]]
    ELSE [ok |-> FALSE, error |-> ""]

\* Lines 61-80: what the handler returns for what the converter printed.
\* stdout is [src: the bytes the process read, text: what it printed].
StdoutResponse(stdout) ==
    IF LooksLikeJson(stdout.text) /\ JsonParse(stdout.text).ok
    THEN JsonResponse(
            IF JsonParse(stdout.text).error # ""
            THEN JsonParse(stdout.text).error
            ELSE "Conversion failed",
            400)
    ELSE CalendarResponse(stdout)

\* ------------------------------------------------------------ converter process

\* The command line of lines 51 and 54: the interpreter, the script, the path.
Command(interp, filePath) == [interp |-> interp, args |-> <<PythonScript, filePath>>]

\* The interpreter of the first invocation, and of the one the inner catch makes.
FirstInterpreter == "python3"
\* A bug the inner catch could have: it runs the python3 command again.
RetrySameInterpreter == "python3"
FallbackInterpreter == "python"

\* skip_breaks as the converter gets it: an argument after the file path that
\* says so, false by default.
SkipBreaksOf(cmd) == Len(cmd.args) >= 3 /\ cmd.args[3] = <<"1">>

\* A process that exited with 0: it read the file at its path and printed text.
Succeeded(cmd, text) ==
    [cmd |-> cmd, ok |-> TRUE, read |-> fs[cmd.args[2]], text |-> text,
     skipBreaks |-> SkipBreaksOf(cmd)]

\* A process that could not be started or exited with an error.
Failed(cmd) ==
    [cmd |-> cmd, ok |-> FALSE, read |-> "none", text |-> << >>,
     skipBreaks |-> SkipBreaksOf(cmd)]

\* ------------------------------------------------------------ the handler

HandlerInit ==
    /\ pc = [r \in Reqs |-> "idle"]
    /\ input = [r \in Reqs |-> NoRequest]
    /\ buffer = [r \in Reqs |-> "none"]
    /\ dirExists = FALSE
    /\ fs = [p \in Paths |-> "absent"]
    /\ execs = [r \in Reqs |-> << >>]
    /\ effects = [r \in Reqs |-> {}]
    /\ thrown = [r \in Reqs |-> << >>]
    /\ responses = [r \in Reqs |-> << >>]

\* No expansion is under way.
NoJob == [start |-> 0, end |-> 0, days |-> {}, skipBreaks |-> FALSE, windows |-> {}, state |-> "idle"]

\* Largest number of calls of /api/convert a page makes.
MaxAttempts == 3

Attempts == 1..MaxAttempts

\* A call the page has not made.
NoAnswer == [kind |-> "none", text |-> ""]
NoAttempt == [stage |-> "unused", answer |-> NoAnswer]

\* The states of a page as useState initialises them (page.tsx lines 7-10 and
\* 207-211), for the page p.
PageStart(p) ==
    /\ page = p
    /\ file = "none"
    /\ skipBreaks = FALSE
    /\ isDragOver = FALSE
    /\ isConverting = FALSE
    /\ pageError = ""
    /\ success = FALSE
    /\ attempts = [a \in Attempts |-> NoAttempt]
    /\ started = 0
    /\ errorBy = 0
    /\ successBy = 0

Init ==
    /\ HandlerInit
    /\ job = NoJob
    /\ cursor = 0
    /\ occurrences = << >>
    /\ PageStart("none")

\* A return statement of the handler.
Return(r, response) ==
    /\ responses' = [responses EXCEPT ![r] = Append(@, response)]
    /\ pc' = [pc EXCEPT ![r] = "done"]

\* The outer catch (lines 81-102).
Catch(r, msg) ==
    /\ thrown' = [thrown EXCEPT ![r] = Append(@, msg)]
    /\ Return(r, JsonResponse(ErrorMessage(msg), 500))

\* A client sends request r: POST is called.
Arrive(r) ==
    /\ pc[r] = "idle"
    /\ \E req \in Requests : input' = [input EXCEPT ![r] = req]
    /\ pc' = [pc EXCEPT ![r] = "formData"]
    /\ UNCHANGED <<buffer, dirExists, fs, execs, effects, thrown, responses>>
    /\ UNCHANGED <<xvars, pvars>>

\* Lines 13-32: await request.formData() resolves or throws; then the two
\* checks, and the call of file.arrayBuffer().
ParseForm(r) ==
    /\ pc[r] = "formData"
    /\ IF input[r].body = "malformed"
       THEN \E msg \in FormDataErrors : Catch(r, msg)
       ELSE /\ IF ~input[r].file.present
               THEN Return(r, JsonResponse("No file uploaded", 400))
               ELSE IF ~ValidExtension(input[r].file.name)
               THEN Return(r, JsonResponse("Please upload an Excel file (.xlsx or .xls)", 400))
               ELSE /\ pc' = [pc EXCEPT ![r] = "arrayBuffer"]
                    /\ UNCHANGED responses
            /\ UNCHANGED thrown
    /\ UNCHANGED <<input, buffer, dirExists, fs, execs, effects>>
    /\ UNCHANGED <<xvars, pvars>>

\* Lines 32-43: await file.arrayBuffer() resolves; existsSync(uploadDir) decides
\* whether mkdir or writeFile is awaited next.
ReadBytes(r) ==
    /\ pc[r] = "arrayBuffer"
    /\ buffer' = [buffer EXCEPT ![r] = input[r].file.bytes]
    /\ pc' = [pc EXCEPT ![r] = IF dirExists THEN "writeFile" ELSE "mkdir"]
    /\ UNCHANGED <<input, dirExists, fs, execs, effects, thrown, responses>>
    /\ UNCHANGED <<xvars, pvars>>

\* Line 39: await mkdir(uploadDir, { recursive: true }) resolves (also when the
\* directory exists by now) or throws.
Mkdir(r) ==
    /\ pc[r] = "mkdir"
    /\ \/ /\ dirExists' = TRUE
          /\ effects' = [effects EXCEPT ![r] = @ \cup {"mkdir"}]
          /\ pc' = [pc EXCEPT ![r] = "writeFile"]
          /\ UNCHANGED <<thrown, responses>>
       \/ /\ \E msg \in FsErrors : Catch(r, msg)
          /\ UNCHANGED <<dirExists, effects>>
    /\ UNCHANGED <<input, buffer, fs, execs>>
    /\ UNCHANGED <<xvars, pvars>>

\* Line 43: await writeFile(filePath, buffer) resolves or throws.
WriteFile(r) ==
    /\ pc[r] = "writeFile"
    /\ \/ /\ fs' = [fs EXCEPT ![FilePath(r)] = buffer[r]]
          /\ effects' = [effects EXCEPT ![r] = @ \cup {"writeFile"}]
          /\ pc' = [pc EXCEPT ![r] = FirstInterpreter]
          /\ UNCHANGED <<thrown, responses>>
       \/ /\ \E msg \in FsErrors : Catch(r, msg)
          /\ UNCHANGED <<fs, effects>>
    /\ UNCHANGED <<input, buffer, dirExists, execs>>
    /\ UNCHANGED <<xvars, pvars>>

\* Line 51: await execAsync(`python3 ...`) resolves with the process's stdout,
\* or rejects; the inner catch then calls execAsync(`python ...`) (line 54).
ExecPython3(r) ==
    /\ pc[r] = FirstInterpreter
    /\ effects' = [effects EXCEPT ![r] = @ \cup {"exec"}]
    /\ LET cmd == Command(FirstInterpreter, FilePath(r)) IN
       \/ \E text \in Stdouts :
            /\ execs' = [execs EXCEPT ![r] = Append(@, Succeeded(cmd, text))]
            /\ Return(r, StdoutResponse([src |-> fs[FilePath(r)], text |-> text]))
       \/ /\ execs' = [execs EXCEPT ![r] = Append(@, Failed(cmd))]
          /\ pc' = [pc EXCEPT ![r] = FallbackInterpreter]
          /\ UNCHANGED responses
    /\ UNCHANGED <<input, buffer, dirExists, fs, thrown>>
    /\ UNCHANGED <<xvars, pvars>>

\* Line 54: await execAsync(`python ...`) resolves, or rejects into the outer
\* catch.
ExecPython(r) ==
    /\ pc[r] = FallbackInterpreter
    /\ effects' = [effects EXCEPT ![r] = @ \cup {"exec"}]
    /\ LET cmd == Command(FallbackInterpreter, FilePath(r)) IN
       \/ \E text \in Stdouts :
            /\ execs' = [execs EXCEPT ![r] = Append(@, Succeeded(cmd, text))]
            /\ Return(r, StdoutResponse([src |-> fs[FilePath(r)], text |-> text]))
            /\ UNCHANGED thrown
       \/ /\ execs' = [execs EXCEPT ![r] = Append(@, Failed(cmd))]
          /\ \E msg \in ExecErrors : Catch(r, msg)
    /\ UNCHANGED <<input, buffer, dirExists, fs>>
    /\ UNCHANGED <<xvars, pvars>>

Next ==
    \E r \in Reqs :
        \/ Arrive(r)
        \/ ParseForm(r)
        \/ ReadBytes(r)
        \/ Mkdir(r)
        \/ WriteFile(r)
        \/ ExecPython3(r)
        \/ ExecPython(r)

Spec == Init /\ [][Next]_vars

\* ------------------------------------------------------------ Recurrence Expander

\* Largest date of a meeting record; dates are day numbers from 0.
MaxDate == 8

\* The weekday of a date, 0..6.
Weekday(d) == d % 7

\* Whether a date falls inside one of the exclusion windows.
InWindow(d, windows) == \E w \in windows : w.from <= d /\ d <= w.to

\* A bug the filter could have: the windows apply whether or not skip_breaks is set.
EmitsAlwaysSkipping(d, j) == Weekday(d) \in j.days /\ ~InWindow(d, j.windows)

\* Whether the expander emits an occurrence for date d.
Emits(d, j) ==
    Weekday(d) \in j.days /\ (~j.skipBreaks \/ ~InWindow(d, j.windows))

\* Whether date d is still inside the record's inclusive range.
InRange(d, j) == d <= j.end

\* Day sets of meeting records (non-empty: a row without days is skipped).
DaySets == { {0, 2, 4}, {1, 3}, {5}, 0..6 }

\* Exclusion data: no window, one inside the term, one that covers every
\* date, and two windows that overlap.
WindowSets ==
    { {},
      {[from |-> 2, to |-> 3]},
      {[from |-> 0, to |-> MaxDate]},
      {[from |-> 1, to |-> 4], [from |-> 4, to |-> 7]} }

Jobs ==
    { j \in [start : 0..MaxDate, end : 0..MaxDate, days : DaySets,
             skipBreaks : BOOLEAN, windows : WindowSets, state : {"expanding"}] :
        j.start <= j.end }

ExpanderInit ==
    /\ HandlerInit
    /\ PageStart("none")
    /\ job \in Jobs
    /\ cursor = job.start
    /\ occurrences = << >>

\* One turn of the loop over the dates of the range.
ExpandDate ==
    /\ job.state = "expanding"
    /\ InRange(cursor, job)
    /\ occurrences' =
          IF Emits(cursor, job) THEN Append(occurrences, cursor) ELSE occurrences
    /\ cursor' = cursor + 1
    /\ UNCHANGED <<job, hvars, pvars>>

\* The loop ends after the last date of the range.
ExpandFinish ==
    /\ job.state = "expanding"
    /\ ~InRange(cursor, job)
    /\ job' = [job EXCEPT !.state = "done"]
    /\ UNCHANGED <<cursor, occurrences, hvars, pvars>>

ExpanderNext == ExpandDate \/ ExpandFinish

SpecExpander == ExpanderInit /\ [][ExpanderNext]_vars

\* ------------------------------------------------------------ the upload pages

\* The two versions of the page in src/app/page.tsx: v1 is lines 1-194 (a
\* dropzone and a submit button, fetch), v2 is lines 195-425 (drop and file
\* input upload at once, axios).  An attempt is one call of /api/convert;
\* its stage is "sent" while the call is awaited, "timer" (v1) while the
\* setTimeout of line 67 is pending, "reading" (v2) while the FileReader of
\* line 293 is loading, and "finished" after that.

\* Files the dropzone accepts or the user picks.
PickedFiles == {"a.xlsx", "b.xls"}

\* An error string of a server response.
ServerErrors == {"Conversion failed"}

\* How a call of /api/convert ends: a 2xx response; another status with a JSON
\* body (text: its error member, "" when it has none); another status with a
\* body that is not JSON; no response (the network failed).
Answers ==
    { [kind |-> "ok", text |-> ""],
      [kind |-> "notJson", text |-> ""],
      [kind |-> "network", text |-> ""] }
        \cup [kind : {"json"}, text : ServerErrors \cup {""}]

\* a || b on strings
OrElse(a, b) == IF a # "" THEN a ELSE b

\* v1 lines 45-48 and 68-69: the message the catch block sets.
V1ErrorText(ans) ==
    IF ans.kind = "json"
    THEN OrElse(OrElse(ans.text, "Failed to convert file"), "An error occurred during conversion")
    ELSE IF ans.kind = "notJson"
    THEN OrElse("Unexpected token < in JSON at position 0", "An error occurred during conversion")
    ELSE OrElse("Failed to fetch", "An error occurred during conversion")

\* v2 lines 284-291: the message reader.onload sets.
V2ReaderText(ans) ==
    IF ans.kind = "json"
    THEN OrElse(ans.text, "An error occurred during conversion.")
    ELSE "Invalid file format or structure."

\* A bug the handlers could have: setIsConverting(false) at the end of the try
\* block instead of in finally, so that it runs only when nothing was thrown.
ConvertingAfterNoFinally(ok) == ~ok

\* isConverting after the finally block (v1 lines 70-72, v2 lines 297-299),
\* whether or not the try block threw.
ConvertingAfter(ok) == FALSE

PageInit ==
    /\ HandlerInit
    /\ job = NoJob
    /\ cursor = 0
    /\ occurrences = << >>
    /\ \E p \in {"v1", "v2"} : PageStart(p)

\* v1 lines 13-17, the dropzone's onDrop: f is acceptedFiles[0], "none" when the
\* dropped file was not accepted.
OnDrop(f) ==
    /\ page = "v1"
    /\ file' = f
    /\ pageError' = ""
    /\ errorBy' = 0
    /\ UNCHANGED <<page, skipBreaks, isDragOver, isConverting, success, attempts,
                   started, successBy>>
    /\ UNCHANGED <<hvars, xvars>>

\* v1 lines 25-43: the submit button, which is rendered when file is set (line
\* 122) and disabled while isConverting (line 125), is clicked; handleSubmit
\* runs up to the await of fetch.  With file set, line 28 does not return.
HandleSubmit ==
    /\ page = "v1"
    /\ file # "none"
    /\ ~isConverting
    /\ started < MaxAttempts
    /\ isConverting' = TRUE
    /\ pageError' = ""
    /\ errorBy' = 0
    /\ started' = started + 1
    /\ attempts' = [attempts EXCEPT ![started + 1] = [stage |-> "sent", answer |-> NoAnswer]]
    /\ UNCHANGED <<page, file, skipBreaks, isDragOver, success, successBy>>
    /\ UNCHANGED <<hvars, xvars>>

\* v1 lines 40-72: the call of attempt a ends; the rest of handleSubmit runs.
V1Respond(a) ==
    /\ page = "v1"
    /\ attempts[a].stage = "sent"
    /\ \E ans \in Answers :
          /\ IF ans.kind = "ok"
             THEN /\ success' = TRUE
                  /\ successBy' = a
                  /\ attempts' = [attempts EXCEPT ![a] = [stage |-> "timer", answer |-> ans]]
                  /\ UNCHANGED <<pageError, errorBy>>
             ELSE /\ pageError' = V1ErrorText(ans)
                  /\ errorBy' = a
                  /\ attempts' = [attempts EXCEPT ![a] = [stage |-> "finished", answer |-> ans]]
                  /\ UNCHANGED <<success, successBy>>
          /\ isConverting' = ConvertingAfter(ans.kind = "ok")
    /\ UNCHANGED <<page, file, skipBreaks, isDragOver, started>>
    /\ UNCHANGED <<hvars, xvars>>

\* v1 line 67: the timeout of attempt a fires.
V1Timer(a) ==
    /\ page = "v1"
    /\ attempts[a].stage = "timer"
    /\ success' = FALSE
    /\ successBy' = 0
    /\ attempts' = [attempts EXCEPT ![a].stage = "finished"]
    /\ UNCHANGED <<page, file, skipBreaks, isDragOver, isConverting, pageError,
                   started, errorBy>>
    /\ UNCHANGED <<hvars, xvars>>

\* v2 line 319: the checkbox, disabled while isConverting (line 321).
ToggleSkipBreaks ==
    /\ page = "v2"
    /\ ~isConverting
    /\ skipBreaks' = ~skipBreaks
    /\ UNCHANGED <<page, file, isDragOver, isConverting, pageError, success,
                   attempts, started, errorBy, successBy>>
    /\ UNCHANGED <<hvars, xvars>>

\* v2 lines 213-216
HandleDragOver ==
    /\ page = "v2"
    /\ isDragOver' = TRUE
    /\ UNCHANGED <<page, file, skipBreaks, isConverting, pageError, success,
                   attempts, started, errorBy, successBy>>
    /\ UNCHANGED <<hvars, xvars>>

\* v2 lines 218-221
HandleDragLeave ==
    /\ page = "v2"
    /\ isDragOver' = FALSE
    /\ UNCHANGED <<page, file, skipBreaks, isConverting, pageError, success,
                   attempts, started, errorBy, successBy>>
    /\ UNCHANGED <<hvars, xvars>>

\* v2 lines 246-256: handleFileUpload up to the await of axios.post.
StartUpload ==
    /\ started < MaxAttempts
    /\ isConverting' = TRUE
    /\ pageError' = ""
    /\ errorBy' = 0
    /\ success' = FALSE
    /\ successBy' = 0
    /\ started' = started + 1
    /\ attempts' = [attempts EXCEPT ![started + 1] = [stage |-> "sent", answer |-> NoAnswer]]

\* v2 lines 223-237: files are dropped on the upload area, whose onDrop (line
\* 338) has no condition on isConverting.  hasExcel: whether one of them has
\* an Excel name.
HandleDrop(hasExcel) ==
    /\ page = "v2"
    /\ isDragOver' = FALSE
    /\ IF hasExcel
       THEN StartUpload
       ELSE /\ pageError' = "Please upload an Excel file (.xlsx or .xls)"
            /\ errorBy' = 0
            /\ UNCHANGED <<isConverting, success, attempts, started, successBy>>
    /\ UNCHANGED <<page, file, skipBreaks>>
    /\ UNCHANGED <<hvars, xvars>>

\* v2 lines 239-244: a file is picked in the file input, which is disabled
\* while isConverting (line 345).
HandleFileSelect ==
    /\ page = "v2"
    /\ ~isConverting
    /\ StartUpload
    /\ UNCHANGED <<page, file, skipBreaks, isDragOver>>
    /\ UNCHANGED <<hvars, xvars>>

\* v2 lines 256-299: the call of attempt a ends; the rest of handleFileUpload
\* runs.  For a response with another status the error is set later, by the
\* reader's onload.
V2Respond(a) ==
    /\ page = "v2"
    /\ attempts[a].stage = "sent"
    /\ \E ans \in Answers :
          /\ IF ans.kind = "ok"
             THEN /\ success' = TRUE
                  /\ successBy' = a
                  /\ attempts' = [attempts EXCEPT ![a] = [stage |-> "finished", answer |-> ans]]
                  /\ UNCHANGED <<pageError, errorBy>>
             ELSE IF ans.kind = "network"
             THEN /\ pageError' = "An error occurred during conversion."
                  /\ errorBy' = a
                  /\ attempts' = [attempts EXCEPT ![a] = [stage |-> "finished", answer |-> ans]]
                  /\ UNCHANGED <<success, successBy>>
             ELSE /\ attempts' = [attempts EXCEPT ![a] = [stage |-> "reading", answer |-> ans]]
                  /\ UNCHANGED <<pageError, errorBy, success, successBy>>
          /\ isConverting' = ConvertingAfter(ans.kind = "ok")
    /\ UNCHANGED <<page, file, skipBreaks, isDragOver, started>>
    /\ UNCHANGED <<hvars, xvars>>

\* v2 lines 284-292: the reader of attempt a has loaded the response's body.
V2ReaderLoad(a) ==
    /\ page = "v2"
    /\ attempts[a].stage = "reading"
    /\ pageError' = V2ReaderText(attempts[a].answer)
    /\ errorBy' = a
    /\ attempts' = [attempts EXCEPT ![a].stage = "finished"]
    /\ UNCHANGED <<page, file, skipBreaks, isDragOver, isConverting, success,
                   started, successBy>>
    /\ UNCHANGED <<hvars, xvars>>

\* A call of /api/convert ends.
Complete == \E a \in Attempts : V1Respond(a) \/ V2Respond(a)

\* A pending reader loads.
ReaderLoads == \E a \in Attempts : V2ReaderLoad(a)

PageNext ==
    \/ \E f \in PickedFiles \cup {"none"} : OnDrop(f)
    \/ HandleSubmit
    \/ \E a \in Attempts : V1Respond(a)
    \/ \E a \in Attempts : V1Timer(a)
    \/ ToggleSkipBreaks
    \/ HandleDragOver
    \/ HandleDragLeave
    \/ \E hasExcel \in BOOLEAN : HandleDrop(hasExcel)
    \/ HandleFileSelect
    \/ \E a \in Attempts : V2Respond(a)
    \/ \E a \in Attempts : V2ReaderLoad(a)

\* Every call of /api/convert ends (with a response or a network failure), and
\* every FileReader loads.
SpecPage ==
    PageInit /\ [][PageNext]_vars /\ WF_vars(Complete) /\ WF_vars(ReaderLoads)

\* ------------------------------------------------------------ properties

Done(r) == pc[r] = "done"
Response(r) == responses[r][1]
LastExec(r) == execs[r][Len(execs[r])]

\* The literal error strings of the handler (lines 18, 26, 66, 85-95).
UserMessages ==
    { "No file uploaded",
      "Please upload an Excel file (.xlsx or .xls)",
      "Conversion failed",
      "An unknown error occurred on the server.",
      "Server configuration error. Please try again later.",
      "Invalid file format. Please ensure you uploaded a valid UBC course schedule Excel file.",
      "File access error. Please try again.",
      "File system error. Please try again." }

\* The request is one line 16 or line 24 rejects.
Rejected(r) ==
    /\ input[r].body = "form"
    /\ \/ ~input[r].file.present
       \/ ~(EndsWith(input[r].file.name, Xlsx) \/ EndsWith(input[r].file.name, Xls))

\* The text is a JSON object, with white space around it at most.
IsJsonObject(text) ==
    \/ Trim(text) = <<"{", "}">>
    \/ \E m \in ConverterErrors \cup {""} : Trim(text) = <<"{", "error", m, "}">>

\* The text is an error payload: a JSON object whose error member is a message.
IsErrorPayload(text) ==
    \E m \in ConverterErrors : Trim(text) = <<"{", "error", m, "}">>

\* The number of events in a text.
EventCount(text) == Cardinality({i \in DOMAIN text : text[i] = "BEGIN:VEVENT"})

\* C1: once every request that arrived has been answered, no uploaded file
\* remains in the uploads directory.
C1_NoUploadRemains ==
    (\A r \in Reqs : pc[r] \in {"idle", "done"})
        => \A p \in Paths : fs[p] = "absent"

\* C2: every converter process a request starts reads the bytes that request
\* uploaded, and a calendar response carries the output made from them.
C2_ConverterReadsOwnBytes ==
    \A r \in Reqs :
        /\ \A i \in DOMAIN execs[r] :
              execs[r][i].ok => execs[r][i].read = input[r].file.bytes
        /\ (Done(r) /\ Response(r).status = 200)
              => Response(r).body.src = input[r].file.bytes

\* C3: when the expansion of a meeting record ends, the emitted dates are
\* exactly the dates of [start, end] whose weekday is in the day set, without
\* the dates inside an exclusion window when skip_breaks is on; they ascend
\* strictly (no duplicates); and a one-day range gives one occurrence when its
\* date is such a date and none otherwise.
C3_ExpanderEmitsExactly ==
    job.state = "done" =>
        LET expected ==
                { d \in job.start..job.end :
                    /\ (d % 7) \in job.days
                    /\ ~(job.skipBreaks
                           /\ \E w \in job.windows : w.from <= d /\ d <= w.to) }
        IN  /\ { occurrences[i] : i \in DOMAIN occurrences } = expected
            /\ Len(occurrences) = Cardinality(expected)
            /\ \A i \in 1..(Len(occurrences) - 1) : occurrences[i] < occurrences[i + 1]
            /\ job.start = job.end =>
                  Len(occurrences) = IF job.start \in expected THEN 1 ELSE 0
            /\ (job.start = job.end /\ ~job.skipBreaks) =>
                  Len(occurrences) = IF (job.start % 7) \in job.days THEN 1 ELSE 0

\* C3 witness: an expansion with skip_breaks on has ended with several
\* occurrences, and a date of the range on a meeting day was inside a window.
C3_Witness ==
    /\ job.state = "done"
    /\ job.skipBreaks
    /\ Len(occurrences) >= 2
    /\ \E d \in job.start..job.end : Weekday(d) \in job.days /\ InWindow(d, job.windows)

\* C4: a request has exactly one response once its handler has returned and
\* none before; the response is a 200 calendar attachment named courses.ics,
\* or a 400 JSON error (only for a missing file, a name without the Excel
\* extension, or a JSON object printed by the converter), or a 500 JSON error,
\* which is what a request gets exactly when an exception reached the outer
\* catch.
C4_ResponseShapes ==
    \A r \in Reqs :
        /\ Len(responses[r]) = IF Done(r) THEN 1 ELSE 0
        /\ Done(r) =>
              \/ /\ Response(r).status = 200
                 /\ Response(r).contentType = "text/calendar"
                 /\ Response(r).disposition = "attachment; filename=\"courses.ics\""
                 /\ thrown[r] = << >>
              \/ /\ Response(r).status = 400
                 /\ Response(r).contentType = "application/json"
                 /\ Response(r).error # ""
                 /\ Response(r).body = NoBody
                 /\ thrown[r] = << >>
                 /\ \/ Rejected(r)
                    \/ /\ execs[r] # << >>
                       /\ LastExec(r).ok
                       /\ IsJsonObject(LastExec(r).text)
              \/ /\ Response(r).status = 500
                 /\ Response(r).contentType = "application/json"
                 /\ Response(r).error # ""
                 /\ Response(r).body = NoBody
                 /\ Len(thrown[r]) = 1

\* C4 witness: one request was answered 500 after an exception and another
\* 400 for an error the converter reported.
C4_Witness ==
    \E r, q \in Reqs :
        /\ Done(r) /\ Response(r).status = 500
        /\ Done(q) /\ Response(q).status = 400 /\ execs[q] # << >>

\* C5: when the last converter process of an answered request failed, or
\* printed an error payload, the response is a 400 or 500 JSON error and carries
\* no converter output.
C5_HardFailureIsErrorResult ==
    \A r \in Reqs :
        (/\ Done(r)
         /\ execs[r] # << >>
         /\ ~LastExec(r).ok \/ IsErrorPayload(LastExec(r).text))
            => /\ Response(r).status \in {400, 500}
               /\ Response(r).contentType = "application/json"
               /\ Response(r).error # ""
               /\ Response(r).body = NoBody

\* C5 witness: python3 failed, python printed an error payload after white
\* space, and the request was answered 400.
C5_Witness ==
    \E r \in Reqs :
        /\ Done(r)
        /\ Len(execs[r]) = 2
        /\ IsErrorPayload(LastExec(r).text)
        /\ Head(LastExec(r).text) = "ws"
        /\ Response(r).status = 400

\* C6: a 200 calendar response holds at least one event.
C6_SuccessHasEvents ==
    \A r \in Reqs :
        (Done(r) /\ Response(r).status = 200)
            => EventCount(Response(r).body.text) > 0

\* C7: the error string of every 400 or 500 response is one of the handler's
\* fixed user-facing messages.
C7_ErrorStringsFixed ==
    \A r \in Reqs :
        (Done(r) /\ Response(r).status \in {400, 500})
            => Response(r).error \in UserMessages

\* C8: every converter process of a request runs with exclusion filtering on
\* exactly when the request's skip_breaks field is '1'.
C8_SkipBreaksReachesConverter ==
    \A r \in Reqs :
        \A i \in DOMAIN execs[r] :
            execs[r][i].skipBreaks <=> (input[r].skip = "1")

\* C9 as claimed: a request starts the converter process at most once.
C9_NoRetry ==
    \A r \in Reqs : Len(execs[r]) <= 1

\* C9 as amended: a request starts the converter at most twice, first with
\* python3 and, only after that process failed, once more with python on the
\* same script and path; nothing is started after a process that succeeded; and
\* when the python process fails too the request is answered 500 with the
\* message picked for that failure's exception.
C9_AtMostOneFallback ==
    \A r \in Reqs :
        /\ Len(execs[r]) <= 2
        /\ execs[r] # << >> => execs[r][1].cmd.interp = "python3"
        /\ Len(execs[r]) = 2 =>
              /\ ~execs[r][1].ok
              /\ execs[r][2].cmd.interp = "python"
              /\ execs[r][2].cmd.args = execs[r][1].cmd.args
        /\ \A i \in DOMAIN execs[r] : execs[r][i].ok => (i = Len(execs[r]) /\ Done(r))
        /\ (Done(r) /\ execs[r] # << >> /\ ~LastExec(r).ok) =>
              /\ Len(execs[r]) = 2
              /\ Len(thrown[r]) = 1
              /\ thrown[r][1] \in ExecErrors
              /\ Response(r).status = 500
        /\ (pc[r] = "python") <=> (Len(execs[r]) = 1 /\ ~execs[r][1].ok)

\* C9 witness: both processes of a request failed and it was answered.
C9_Witness ==
    \E r \in Reqs :
        /\ Done(r)
        /\ Len(execs[r]) = 2
        /\ ~execs[r][2].ok

\* C10: a request without a file, or with a file name that ends neither in
\* .xlsx nor in .xls, is answered 400 and its handler made no directory, wrote
\* no file, read no bytes and started no process; whatever is in the uploads
\* directory was put there by a request that passed both checks.
C10_RejectedBeforeSideEffects ==
    /\ \A r \in Reqs :
          Rejected(r) =>
              /\ effects[r] = {}
              /\ execs[r] = << >>
              /\ buffer[r] = "none"
              /\ pc[r] \in {"formData", "done"}
              /\ Done(r) => (Response(r).status = 400 /\ thrown[r] = << >>)
    /\ dirExists => \E r \in Reqs : "mkdir" \in effects[r]
    /\ \A p \in Paths :
          fs[p] # "absent" =>
              \E r \in Reqs : "writeFile" \in effects[r] /\ FilePath(r) = p

\* C10 witness: a request with a rejected file name was answered after another
\* request had written its upload.
C10_Witness ==
    \E r, q \in Reqs :
        /\ Done(r) /\ Rejected(r) /\ input[r].file.present
        /\ "writeFile" \in effects[q]

\* The calls of /api/convert that are awaited.
InFlight == { a \in Attempts : attempts[a].stage = "sent" }

\* The call of attempt a ends in this step.
Ends(a) == attempts[a].stage = "sent" /\ attempts[a].stage' # "sent"

\* C11: at most one call of /api/convert is in flight at a time.
C11_SingleFlight == Cardinality(InFlight) <= 1

\* C12: the success message and an error message are never shown together;
\* and when no call is in flight, a shown success message, or error message of
\* an upload, was set by the most recent attempt.
C12_NeverBoth ==
    /\ ~(success /\ pageError # "")
    /\ InFlight = {} =>
          /\ success => successBy = started
          /\ (pageError # "" /\ errorBy # 0) => errorBy = started

\* C13 as claimed: in the step in which the call of an attempt ends,
\* isConverting becomes false and exactly one of the success message and an
\* error message has been set by that attempt.
C13_EndsWithOneMessage ==
    [][\A a \in Attempts :
          Ends(a) =>
              /\ ~isConverting'
              /\ (success' /\ successBy' = a) # (pageError' # "" /\ errorBy' = a)]_vars

\* C13 as amended: isConverting, once true, becomes false again, in the step
\* in which a call ends, however it ends; every call ends.  By then exactly
\* one of these holds for the attempt: it has set the success message; it has
\* set an error message; or (v2 only, for a response with an error status) its
\* FileReader is loading, and neither message is set by it yet.  A loading
\* reader eventually loads and sets the attempt's error message then.
C13_ConvertingEnds ==
    /\ [][\A a \in Attempts :
            Ends(a) =>
                LET s == success' /\ successBy' = a
                    e == pageError' # "" /\ errorBy' = a
                    rd == /\ page = "v2"
                          /\ attempts[a].stage' = "reading"
                          /\ attempts[a].answer'.kind \in {"json", "notJson"}
                IN  /\ ~isConverting'
                    /\ \/ s /\ ~e /\ ~rd
                       \/ ~s /\ e /\ ~rd
                       \/ ~s /\ ~e /\ rd
                    /\ page = "v1" => ~rd]_vars
    /\ [][\A a \in Attempts :
            (attempts[a].stage = "reading" /\ attempts[a].stage' # "reading")
                => (pageError' # "" /\ errorBy' = a)]_vars
    /\ isConverting ~> ~isConverting
    /\ \A a \in Attempts : (attempts[a].stage = "sent") ~> (attempts[a].stage # "sent")
    /\ \A a \in Attempts : (attempts[a].stage = "reading") ~> (attempts[a].stage = "finished")

\* C13 witness: on v2 the call of an attempt has ended with an error response:
\* isConverting is false again, the reader is loading, and no message is shown.
C13_Witness ==
    \E a \in Attempts :
        /\ page = "v2"
        /\ attempts[a].stage = "reading"
        /\ ~isConverting
        /\ ~success
        /\ pageError = ""

====
